---- MODULE Spec2Model ----
(***************************************************************************)
(* tikv-cli: the store client adapter (TikvClient.Get/Set/Scan/Delete),    *)
(* the command handlers (command.get/set/delete/scan), hexEscape and the   *)
(* REPL loop of main (processLine).                                        *)
(*                                                                         *)
(* Keys, values and command-line words are byte strings: sequences of      *)
(* byte values (ASCII codes).  The store is a finite map from keys to      *)
(* values, iterated in lexicographic byte order.                           *)
(***************************************************************************)
EXTENDS Integers, Sequences, FiniteSets, TLC

\* ------------------------------------------------------------------ bounds
MaxStrLen == 5      \* longest input string given to hexEscape in SpecHex
MaxStored == 3      \* most keys in the store
MaxLimit == 2       \* largest scan limit tried
MaxArgs == 2        \* most words after the command word of a REPL line

\* ------------------------------------------------------------------ bytes
Backslash == 92     \* '\\'
CharX == 120        \* 'x'

\* The characters the hexEscape inputs are made of: \ x 4 1 a F g
HexAlphabet == {92, 120, 52, 49, 97, 70, 103}

\* encoding/hex fromHexChar: the value of a hex digit, -1 for any other byte
fromHexChar(c) ==
    IF c >= 48 /\ c <= 57 THEN c - 48
    ELSE IF c >= 97 /\ c <= 102 THEN c - 97 + 10
    ELSE IF c >= 65 /\ c <= 70 THEN c - 65 + 10
    ELSE -1

\* hex.Decode(escaped[j:], s[i+1:i+3]) given the values of the two digits:
\* one byte, or an error
hexByte(hi, lo) ==
    IF hi < 0 \/ lo < 0
    THEN [err |-> TRUE, byte |-> 0]
    ELSE [err |-> FALSE, byte |-> 16 * hi + lo]

hexDecode(hi, lo) == hexByte(fromHexChar(hi), fromHexChar(lo))

\* mutant: the bound check one byte too strict (i+3 >= len(s))
hexTooShort_OffByOne(s, i) == (i - 1) + 3 >= Len(s)

\* case 'x' with tune set: are the two digits after position i inside s?
\* (i is 1-based here; the code's i+2 >= len(s) is on the 0-based index)
hexTooShort(s, i) == (i - 1) + 2 >= Len(s)

\* The loop of hexEscape from position i (1-based), with the flag tune and the
\* bytes written so far (escaped[0:j]).  fatal: log.Fatalln ended the process.
RECURSIVE hexLoop(_, _, _, _)
\* case 'x' with tune set and two more bytes: d is what hex.Decode returned
hexDecoded(s, i, escaped, d) ==
    IF d.err
    THEN [fatal |-> TRUE, out |-> escaped]
    ELSE hexLoop(s, i + 3, FALSE, Append(escaped, d.byte))

hexLoop(s, i, tune, escaped) ==
    IF i > Len(s) THEN [fatal |-> FALSE, out |-> escaped]
    ELSE IF s[i] = Backslash THEN
        IF tune
        THEN hexLoop(s, i + 1, FALSE, Append(escaped, s[i]))
        ELSE hexLoop(s, i + 1, TRUE, escaped)
    ELSE IF s[i] = CharX THEN
        IF ~tune
        THEN hexLoop(s, i + 1, tune, Append(escaped, s[i]))
        ELSE IF hexTooShort(s, i)
        THEN hexLoop(s, i + 1, FALSE, Append(escaped, s[i]))
        ELSE hexDecoded(s, i, escaped, hexDecode(s[i + 1], s[i + 2]))
    ELSE hexLoop(s, i + 1, FALSE, Append(escaped, s[i]))

hexEscape(s) == hexLoop(s, 1, FALSE, <<>>)

\* ------------------------------------------------------------------ keys
\* bytes.Compare / the store's key order: lexicographic on bytes (-1, 0, 1)
bytesCompare(a, b) ==
    LET m == IF Len(a) < Len(b) THEN Len(a) ELSE Len(b)
        diff == {i \in 1..m : a[i] # b[i]}
    IN  IF diff = {}
        THEN IF Len(a) < Len(b) THEN -1 ELSE IF Len(a) > Len(b) THEN 1 ELSE 0
        ELSE LET i == CHOOSE j \in diff : \A h \in diff : j <= h
             IN  IF a[i] < b[i] THEN -1 ELSE 1

\* bytes.HasPrefix(key, begin)
bytesHasPrefix(key, prefix) ==
    /\ Len(prefix) <= Len(key)
    /\ \A i \in 1..Len(prefix) : key[i] = prefix[i]

\* the keys of S in ascending order: what the store's iterator walks through
RECURSIVE SortedKeys(_)
SortedKeys(S) ==
    IF S = {} THEN <<>>
    ELSE LET least == CHOOSE k \in S : \A h \in S : bytesCompare(k, h) <= 0
         IN  <<least>> \o SortedKeys(S \ {least})

\* ------------------------------------------------------------------ adapter
\* The store is a function from the keys present to their values.
EmptyStore == [k \in {} |-> <<>>]

storePut(st, key, val) ==
    [k \in DOMAIN st \cup {key} |-> IF k = key THEN val ELSE st[k]]

storeRemove(st, keys) == [k \in DOMAIN st \ keys |-> st[k]]

\* An adapter call returns err: "nil", "NotFound" (kv.ErrNotExist from txn.Get)
\* or "Error" (any other failure of the store library).  The parameter fail
\* names the library call that fails, "none" for a run without failure.

\* TikvClient.Get
Get(st, key, fail) ==
    IF fail = "begin" THEN [val |-> <<>>, err |-> "Error"]
    ELSE IF fail = "get" THEN [val |-> <<>>, err |-> "Error"]
    ELSE IF key \notin DOMAIN st THEN [val |-> <<>>, err |-> "NotFound"]
    ELSE [val |-> st[key], err |-> "nil"]

\* mutant: Set returns without txn.Commit, the write is lost
Set_NoCommit(st, key, val, fail) ==
    [store |-> st, err |-> IF fail \in {"begin", "set"} THEN "Error" ELSE "nil"]

\* TikvClient.Set: the write is in the store once the transaction commits
Set(st, key, val, fail) ==
    IF fail = "begin" THEN [store |-> st, err |-> "Error"]
    ELSE IF fail = "set" THEN [store |-> st, err |-> "Error"]
    ELSE IF fail = "commit" THEN [store |-> st, err |-> "Error"]
    ELSE [store |-> storePut(st, key, val), err |-> "nil"]

\* TikvClient.Delete
Delete(st, key, fail) ==
    IF fail = "begin" THEN [store |-> st, err |-> "Error"]
    ELSE IF fail = "delete" THEN [store |-> st, err |-> "Error"]
    ELSE IF fail = "commit" THEN [store |-> st, err |-> "Error"]
    ELSE [store |-> storeRemove(st, {key}), err |-> "nil"]

\* txn.Seek(begin): an iterator over the snapshot's keys >= begin, ascending
Seek(st, begin) ==
    SortedKeys({k \in DOMAIN st : bytesCompare(k, begin) >= 0})

\* mutant: the loop condition without the limit test
scanGoesOn_NoLimit(iter, i, limit) == i <= Len(iter)

\* the loop condition of Scan: iter.Valid() && limit != 0
scanGoesOn(iter, i, limit) == i <= Len(iter) /\ limit # 0

\* The loop of Scan with the iterator at position i.  each maps a key to the
\* visitor's answer; failNext = n > 0 makes the n-th iter.Next() fail.
\* visited lists the keys the visitor was called on, in call order.
RECURSIVE scanLoop(_, _, _, _, _, _, _)
scanLoop(iter, i, limit, total, each, failNext, visited) ==
    IF scanGoesOn(iter, i, limit) THEN
        IF ~each[iter[i]]
        THEN [count |-> total - limit, err |-> "nil",
              visited |-> Append(visited, iter[i])]
        ELSE IF failNext = i
        THEN [count |-> total - limit, err |-> "Error",
              visited |-> Append(visited, iter[i])]
        ELSE scanLoop(iter, i + 1, limit - 1, total, each, failNext,
                      Append(visited, iter[i]))
    ELSE [count |-> total - limit, err |-> "nil", visited |-> visited]

\* TikvClient.Scan(begin, limit, each)
\* fail: [at |-> "none" | "begin" | "seek" | "next", n |-> which Next]
Scan(st, begin, limit, each, fail) ==
    IF fail.at = "begin" THEN [count |-> 0, err |-> "Error", visited |-> <<>>]
    ELSE IF fail.at = "seek" THEN [count |-> 0, err |-> "Error", visited |-> <<>>]
    ELSE scanLoop(Seek(st, begin), 1, limit, limit, each,
                  IF fail.at = "next" THEN fail.n ELSE 0, <<>>)

\* Scan(begin, limit, delete, each) as command.scan calls it: the loop of Scan
\* that also deletes each key the visitor accepted, before moving the
\* iterator on.  A failed delete ends the scan; earlier deletes stay.
RECURSIVE scanDeleteLoop(_, _, _, _, _, _, _, _)
scanDeleteLoop(st, iter, i, limit, total, each, fail, visited) ==
    IF scanGoesOn(iter, i, limit) THEN
        IF ~each[iter[i]]
        THEN [store |-> st, count |-> total - limit, err |-> "nil",
              visited |-> Append(visited, iter[i])]
        ELSE IF fail.at = "delete" /\ fail.n = i
        THEN [store |-> st, count |-> total - limit, err |-> "Error",
              visited |-> Append(visited, iter[i])]
        ELSE IF fail.at = "next" /\ fail.n = i
        THEN [store |-> storeRemove(st, {iter[i]}), count |-> total - limit,
              err |-> "Error", visited |-> Append(visited, iter[i])]
        ELSE scanDeleteLoop(storeRemove(st, {iter[i]}), iter, i + 1, limit - 1,
                            total, each, fail, Append(visited, iter[i]))
    ELSE [store |-> st, count |-> total - limit, err |-> "nil",
          visited |-> visited]

\* the result of Scan, with the store it leaves untouched
scanKept(st, r) ==
    [store |-> st, count |-> r.count, err |-> r.err, visited |-> r.visited]

ScanDelete(st, begin, limit, delete, each, fail) ==
    IF ~delete
    THEN scanKept(st, Scan(st, begin, limit, each, fail))
    ELSE IF fail.at \in {"begin", "seek"}
    THEN [store |-> st, count |-> 0, err |-> "Error", visited |-> <<>>]
    ELSE scanDeleteLoop(st, Seek(st, begin), 1, limit, limit, each, fail, <<>>)

\* ------------------------------------------------------------------ commands
\* One printed line of output.
outKey(k) == [kind |-> "key", key |-> k, val |-> <<>>, n |-> 0]
outVal(v) == [kind |-> "val", key |-> <<>>, val |-> v, n |-> 0]
outPair(k, v) == [kind |-> "pair", key |-> k, val |-> v, n |-> 0]
outErr == [kind |-> "err", key |-> <<>>, val |-> <<>>, n |-> 0]
outText(s) == [kind |-> s, key |-> <<>>, val |-> <<>>, n |-> 0]
outTotal(n) == [kind |-> "total", key |-> <<>>, val |-> <<>>, n |-> n]

\* the failure of the i-th adapter call of a handler: fail names one call
failOf(fail, i) == IF fail.n = i THEN fail.at ELSE "none"

\* command.get, one key: what is printed for it and whether the loop ends
getPrinted(key, r) ==
    [stop |-> r.err # "nil",
     out |-> <<outKey(key), IF r.err # "nil" THEN outErr ELSE outVal(r.val)>>]

RECURSIVE getLoop(_, _, _, _, _)
getNext(st, args, i, fail, out, p) ==
    IF p.stop
    THEN [store |-> st, fatal |-> FALSE, out |-> out \o p.out, calls |-> i,
          failed |-> TRUE]
    ELSE getLoop(st, args, i + 1, fail, out \o p.out)

getKey(st, args, i, fail, out, key) ==
    IF key.fatal
    THEN [store |-> st, fatal |-> TRUE, out |-> out, calls |-> i - 1,
          failed |-> FALSE]
    ELSE getNext(st, args, i, fail, out,
                 getPrinted(key.out, Get(st, key.out, failOf(fail, i))))

\* the loop of command.get from argument i
getLoop(st, args, i, fail, out) ==
    IF i > Len(args)
    THEN [store |-> st, fatal |-> FALSE, out |-> out, calls |-> i - 1,
          failed |-> FALSE]
    ELSE getKey(st, args, i, fail, out, hexEscape(args[i]))

\* what get and delete print first when no key is given
keyRequired(args) ==
    IF Len(args) = 0 THEN <<outText("key is required")>> ELSE <<>>

\* command.get
get(st, args, fail) == getLoop(st, args, 1, fail, keyRequired(args))

\* command.set once key and value are unescaped
setDone(r) ==
    [store |-> r.store, fatal |-> FALSE,
     out |-> IF r.err # "nil" THEN <<outErr>> ELSE <<>>, calls |-> 1,
     failed |-> r.err # "nil"]

setKeyVal(st, key, val, fail) ==
    IF key.fatal \/ val.fatal
    THEN [store |-> st, fatal |-> TRUE, out |-> <<>>, calls |-> 0,
          failed |-> FALSE]
    ELSE setDone(Set(st, key.out, val.out, failOf(fail, 1)))

\* command.set
set(st, args, fail) ==
    IF Len(args) # 2
    THEN [store |-> st, fatal |-> FALSE, out |-> <<>>, calls |-> 0,
          failed |-> FALSE]
    ELSE setKeyVal(st, hexEscape(args[1]), hexEscape(args[2]), fail)

RECURSIVE deleteLoop(_, _, _, _, _)
deleteNext(st, args, i, fail, out, r) ==
    IF r.err # "nil"
    THEN [store |-> st, fatal |-> FALSE, out |-> Append(out, outErr),
          calls |-> i, failed |-> TRUE]
    ELSE deleteLoop(r.store, args, i + 1, fail, out)

deleteKey(st, args, i, fail, out, key) ==
    IF key.fatal
    THEN [store |-> st, fatal |-> TRUE, out |-> out, calls |-> i - 1,
          failed |-> FALSE]
    ELSE deleteNext(st, args, i, fail, out, Delete(st, key.out, failOf(fail, i)))

\* the loop of command.delete from argument i
deleteLoop(st, args, i, fail, out) ==
    IF i > Len(args)
    THEN [store |-> st, fatal |-> FALSE, out |-> out, calls |-> i - 1,
          failed |-> FALSE]
    ELSE deleteKey(st, args, i, fail, out, hexEscape(args[i]))

\* command.delete
delete(st, args, fail) == deleteLoop(st, args, 1, fail, keyRequired(args))

\* command.scan: the begin key, []byte{0} when no argument is given
scanBegin(args) == IF Len(args) = 0 THEN <<0>> ELSE args[1]

\* mutant: the visitor without the prefix test
scanVisitor_NoPrefix(opts, begin, key) ==
    IF opts.until # <<>> /\ bytesCompare(key, opts.until) > 0 THEN FALSE
    ELSE TRUE

\* mutant: the visitor stopping at the until key itself (>= 0 for > 0)
scanVisitor_UntilExclusive(opts, begin, key) ==
    IF opts.prefix /\ ~bytesHasPrefix(key, begin) THEN FALSE
    ELSE IF opts.until # <<>> /\ bytesCompare(key, opts.until) >= 0 THEN FALSE
    ELSE TRUE

\* command.scan: the visitor handed to Scan; TRUE means printed and go on
scanVisitor(opts, begin, key) ==
    IF opts.prefix /\ ~bytesHasPrefix(key, begin) THEN FALSE
    ELSE IF opts.until # <<>> /\ bytesCompare(key, opts.until) > 0 THEN FALSE
    ELSE TRUE

\* mutant: the delete flag is not handed on to Scan
scanDeleteArg_Dropped(opts) == FALSE

\* command.scan: the delete argument of the Scan call
scanDeleteArg(opts) == opts.delete

\* the pairs the visitor printed: the visited keys it answered TRUE for
RECURSIVE printedOf(_, _, _)
printedOf(st, each, visited) ==
    IF visited = <<>> THEN <<>>
    ELSE (IF each[Head(visited)]
          THEN <<outPair(Head(visited), st[Head(visited)])>> ELSE <<>>)
         \o printedOf(st, each, Tail(visited))

\* command.scan, after Scan returned r: the error and the total are printed
scanReport(st, begin, each, r) ==
    [store |-> r.store, fatal |-> FALSE,
     out |-> printedOf(st, each, r.visited)
             \o (IF r.err # "nil" THEN <<outErr>> ELSE <<>>)
             \o <<outTotal(r.count)>>,
     calls |-> 1, begin |-> begin, visited |-> r.visited,
     count |-> r.count, err |-> r.err]

scanWith(st, opts, begin, each, fail) ==
    scanReport(st, begin, each,
               ScanDelete(st, begin, opts.limit, scanDeleteArg(opts), each, fail))

scanFrom(st, opts, begin, fail) ==
    scanWith(st, opts, begin, [k \in DOMAIN st |-> scanVisitor(opts, begin, k)],
             fail)

\* command.scan
scan(st, opts, args, fail) == scanFrom(st, opts, scanBegin(args), fail)

\* ------------------------------------------------------------------ flags
\* c.scanOpts as the flag registration leaves it
DefaultOpts == [limit |-> -1, prefix |-> FALSE, until |-> <<>>, delete |-> FALSE]

\* mutant: registering the flags leaves the bound variables as they are
registerFlags_Keep(opts) == opts

\* fs.Int64VarP / BoolVarP / StringVarP on &c.scanOpts.*: registering a flag
\* stores its default value into the variable it is bound to
registerFlags(opts) == DefaultOpts

\* the flag words of a scan line: -n -p -u -d
FlagN == <<45, 110>>
FlagP == <<45, 112>>
FlagU == <<45, 117>>
FlagD == <<45, 100>>

RECURSIVE digitsValue(_)
digitsValue(w) ==
    IF w = <<>> THEN 0
    ELSE 10 * digitsValue(SubSeq(w, 1, Len(w) - 1)) + (w[Len(w)] - 48)

isDigits(w) == Len(w) > 0 /\ \A i \in 1..Len(w) : w[i] >= 48 /\ w[i] <= 57

\* the value of the limit flag: a decimal integer, or an error
parseInt(w) ==
    IF isDigits(w) THEN [err |-> FALSE, n |-> digitsValue(w)]
    ELSE IF Len(w) > 1 /\ w[1] = 45 /\ isDigits(Tail(w))
    THEN [err |-> FALSE, n |-> 0 - digitsValue(Tail(w))]
    ELSE [err |-> TRUE, n |-> 0]

\* fs.Parse(args[1:]) from word i: flags are applied to opts in order, other
\* words are collected as positional arguments (fs.Args()); the first bad
\* flag ends the parse with an error and leaves what was set before it.
RECURSIVE parseFlags(_, _, _, _)
parseLimit(words, i, opts, pos, v) ==
    IF v.err THEN [opts |-> opts, args |-> pos, err |-> TRUE]
    ELSE parseFlags(words, i + 2, [opts EXCEPT !.limit = v.n], pos)

parseFlag(words, i, opts, pos, s) ==
    IF Len(s) < 2 \/ s[1] # 45
    THEN parseFlags(words, i + 1, opts, Append(pos, s))
    ELSE IF s = FlagP
    THEN parseFlags(words, i + 1, [opts EXCEPT !.prefix = TRUE], pos)
    ELSE IF s = FlagD
    THEN parseFlags(words, i + 1, [opts EXCEPT !.delete = TRUE], pos)
    ELSE IF s = FlagU /\ i + 1 <= Len(words)
    THEN parseFlags(words, i + 2, [opts EXCEPT !.until = words[i + 1]], pos)
    ELSE IF s = FlagN /\ i + 1 <= Len(words)
    THEN parseLimit(words, i, opts, pos, parseInt(words[i + 1]))
    ELSE [opts |-> opts, args |-> pos, err |-> TRUE]

parseFlags(words, i, opts, pos) ==
    IF i > Len(words) THEN [opts |-> opts, args |-> pos, err |-> FALSE]
    ELSE parseFlag(words, i, opts, pos, words[i])

\* ------------------------------------------------------------------ processLine
\* what a handler leaves when no scan ran
NoScan == [begin |-> <<>>, visited |-> <<>>, count |-> 0, err |-> "nil"]

\* processLine, cases "get", "set", "delete": r is what the handler did
handled(opts, r) ==
    [store |-> r.store, opts |-> opts, fatal |-> r.fatal, out |-> r.out,
     calls |-> r.calls, parseErr |-> FALSE, failed |-> r.failed,
     scan |-> NoScan]

\* processLine, case "scan", after fs.Parse returned p and c.scan returned r
scanned(p, r) ==
    [store |-> r.store, opts |-> p.opts, fatal |-> FALSE,
     out |-> (IF p.err THEN <<outErr>> ELSE <<>>) \o r.out,
     calls |-> r.calls, parseErr |-> p.err, failed |-> r.err # "nil",
     scan |-> [begin |-> r.begin, visited |-> r.visited,
               count |-> r.count, err |-> r.err]]

\* processLine, case "scan", after fs.Parse returned p: the error is printed
\* and c.scan(fs.Args()) is called all the same
afterParse(st, p, fail) == scanned(p, scan(st, p.opts, p.args, fail))

processScan(st, opts, words, fail) ==
    afterParse(st, parseFlags(words, 1, registerFlags(opts), <<>>), fail)

\* processLine(c, line): line is [cmd, args], the words of the line
processLine(st, opts, ln, fail) ==
    IF ln.cmd = "get" THEN handled(opts, get(st, ln.args, fail))
    ELSE IF ln.cmd = "set" THEN handled(opts, set(st, ln.args, fail))
    ELSE IF ln.cmd = "delete" THEN handled(opts, delete(st, ln.args, fail))
    ELSE IF ln.cmd = "scan" THEN processScan(st, opts, ln.args, fail)
    ELSE [store |-> st, opts |-> opts, fatal |-> FALSE,
          out |-> <<outText("unkown command")>>, calls |-> 0,
          parseErr |-> FALSE, failed |-> FALSE, scan |-> NoScan]

\* the REPL loop leaves on these lines
isQuit(ln) == ln.cmd \in {"exit", "quit"} /\ ln.args = <<>>

\* ------------------------------------------------------------------ state
VARIABLES
    store,      \* the key-value store behind the adapter
    scanOpts,   \* c.scanOpts, the scan options of the shared command struct
    pc,         \* where main's REPL loop (or the caller of one call) stands
    line,       \* the line prompt.Input returned, as [cmd, args]
    exited,     \* "no", or how the process ended: "quit", "ctrl-d", "fatal"
    call,       \* the arguments of the call under way
    ret,        \* what the last call or REPL line returned and printed
    lastWrite,  \* history: per key, the last successful Set or Delete
    hexIn,      \* the argument of the hexEscape call
    hexOut      \* its result: [fatal, out]

vars == <<store, scanOpts, pc, line, exited, call, ret, lastWrite, hexIn, hexOut>>

\* ------------------------------------------------------------------ inputs
KeyA == <<97>>
KeyA1 == <<97, 49>>
KeyA2 == <<97, 50>>
KeyB == <<98>>
Keys == {KeyA, KeyA1, KeyA2, KeyB}
Vals == {<<118>>, <<119>>}

\* begin keys of a scan: the keys, []byte{0}, and "a0", which is never stored
Begins == Keys \cup {<<0>>, <<97, 48>>}

NoFail == [at |-> "none", n |-> 0]
ScanFails ==
    {NoFail, [at |-> "begin", n |-> 0], [at |-> "seek", n |-> 0]}
    \cup {[at |-> "next", n |-> n] : n \in 1..MaxStored}
ScanDeleteFails == ScanFails \cup {[at |-> "delete", n |-> n] : n \in 1..MaxStored}

\* the stores of at most MaxStored keys whose values are taken from V
StoresOf(V) ==
    UNION {[D -> V] : D \in {S \in SUBSET Keys : Cardinality(S) <= MaxStored}}

NoLine == [cmd |-> "", args |-> <<>>]
NoCall == [op |-> "none"]
NoRet == [op |-> "none", failed |-> FALSE]
NoWrite == [op |-> "none", val |-> <<>>]
NoHistory == [k \in Keys |-> NoWrite]
Pending == [fatal |-> FALSE, out |-> <<-1>>]   \* hexEscape has not returned

\* ------------------------------------------------- hexEscape on its own
HexStrings == UNION {[1..n -> HexAlphabet] : n \in 0..MaxStrLen}

InitHex ==
    /\ hexIn \in HexStrings
    /\ hexOut = Pending
    /\ store = EmptyStore /\ scanOpts = DefaultOpts /\ pc = "call"
    /\ line = NoLine /\ exited = "no" /\ call = NoCall /\ ret = NoRet
    /\ lastWrite = NoHistory

HexCall ==
    /\ hexOut = Pending
    /\ hexOut' = hexEscape(hexIn)
    /\ UNCHANGED <<store, scanOpts, pc, line, exited, call, ret, lastWrite, hexIn>>

NextHex == HexCall

SpecHex == InitHex /\ [][NextHex]_vars

\* ------------------------------------------------- Get, Set, Delete in sequence
InitKV ==
    /\ store = EmptyStore
    /\ lastWrite = NoHistory
    /\ ret = NoRet
    /\ scanOpts = DefaultOpts /\ pc = "call" /\ line = NoLine /\ exited = "no"
    /\ call = NoCall /\ hexIn = <<>> /\ hexOut = Pending

KVSet ==
    \E k \in Keys, v \in Vals, fail \in {"none", "begin", "set", "commit"} :
        LET r == Set(store, k, v, fail)
        IN  /\ Cardinality(DOMAIN store \cup {k}) <= MaxStored
            /\ store' = r.store
            /\ lastWrite' = IF r.err = "nil"
                            THEN [lastWrite EXCEPT ![k] = [op |-> "set", val |-> v]]
                            ELSE lastWrite
            /\ ret' = [op |-> "set", key |-> k, val |-> v, err |-> r.err]
            /\ UNCHANGED <<scanOpts, pc, line, exited, call, hexIn, hexOut>>

KVDelete ==
    \E k \in Keys, fail \in {"none", "begin", "delete", "commit"} :
        LET r == Delete(store, k, fail)
        IN  /\ store' = r.store
            /\ lastWrite' = IF r.err = "nil"
                            THEN [lastWrite EXCEPT ![k] = [op |-> "delete", val |-> <<>>]]
                            ELSE lastWrite
            /\ ret' = [op |-> "delete", key |-> k, val |-> <<>>, err |-> r.err]
            /\ UNCHANGED <<scanOpts, pc, line, exited, call, hexIn, hexOut>>

KVGet ==
    \E k \in Keys, fail \in {"none", "begin", "get"} :
        LET r == Get(store, k, fail)
        IN  /\ ret' = [op |-> "get", key |-> k, val |-> r.val, err |-> r.err]
            /\ UNCHANGED <<store, lastWrite, scanOpts, pc, line, exited, call,
                           hexIn, hexOut>>

NextKV == KVSet \/ KVDelete \/ KVGet

SpecKV == InitKV /\ [][NextKV]_vars

\* ------------------------------------------------- one Scan call of the adapter
\* The visitor is any predicate on the keys: call.accept is the set of keys it
\* answers TRUE for.
InitScan ==
    /\ store \in StoresOf({<<118>>})
    /\ call \in [begin : Begins, limit : -1..MaxLimit, accept : SUBSET Keys,
                 fail : ScanFails]
    /\ pc = "call"
    /\ ret = NoRet
    /\ scanOpts = DefaultOpts /\ line = NoLine /\ exited = "no"
    /\ lastWrite = NoHistory /\ hexIn = <<>> /\ hexOut = Pending

eachOf(st, accept) == [k \in DOMAIN st |-> k \in accept]

AdapterScan ==
    /\ pc = "call"
    /\ ret' = Scan(store, call.begin, call.limit, eachOf(store, call.accept),
                   call.fail)
    /\ pc' = "done"
    /\ UNCHANGED <<store, scanOpts, line, exited, call, lastWrite, hexIn, hexOut>>

NextScan == AdapterScan

SpecScan == InitScan /\ [][NextScan]_vars

\* ------------------------------------------------- one run of the scan command
AllOpts == [limit : -1..MaxLimit, prefix : BOOLEAN, until : {<<>>} \cup Keys,
            delete : BOOLEAN]

InitCmd ==
    /\ store \in StoresOf({<<118>>})
    /\ scanOpts \in AllOpts
    /\ call \in [args : {<<>>} \cup {<<k>> : k \in Keys}, fail : ScanDeleteFails]
    /\ pc = "call"
    /\ ret = NoRet
    /\ line = NoLine /\ exited = "no"
    /\ lastWrite = NoHistory /\ hexIn = <<>> /\ hexOut = Pending

\* the scan command returned r
CmdScanned(r) ==
    /\ store' = r.store
    /\ ret' = [before |-> store, out |-> r.out, begin |-> r.begin,
               visited |-> r.visited, count |-> r.count, err |-> r.err]

CmdScan ==
    /\ pc = "call"
    /\ CmdScanned(scan(store, scanOpts, call.args, call.fail))
    /\ pc' = "done"
    /\ UNCHANGED <<scanOpts, line, exited, call, lastWrite, hexIn, hexOut>>

NextCmd == CmdScan

SpecCmd == InitCmd /\ [][NextCmd]_vars

\* ------------------------------------------------- the REPL loop of main
\* words of get, set and delete lines: a  b  \x61  \xg1
ArgWords == {<<97>>, <<98>>, <<92, 120, 54, 49>>, <<92, 120, 103, 49>>}
\* words of scan lines: -n -p -u -d -x 1 a a1
ScanWords == {FlagN, FlagP, FlagU, FlagD, <<45, 120>>, <<49>>, KeyA, KeyA1}

SeqsUpTo(S, n) == UNION {[1..m -> S] : m \in 0..n}

Lines ==
    {[cmd |-> c, args |-> a] : c \in {"get", "set", "delete"},
                               a \in SeqsUpTo(ArgWords, MaxArgs)}
    \cup {[cmd |-> "scan", args |-> a] : a \in SeqsUpTo(ScanWords, MaxArgs)}
    \cup {[cmd |-> "foo", args |-> <<>>], [cmd |-> "exit", args |-> <<KeyA>>],
          [cmd |-> "exit", args |-> <<>>], [cmd |-> "quit", args |-> <<>>]}

\* the library call that fails while a line is processed, if any
LineFails ==
    {NoFail}
    \cup {[at |-> a, n |-> n] : a \in {"begin", "commit"}, n \in 1..MaxArgs}
    \cup {[at |-> a, n |-> 1] : a \in {"next", "delete"}}

Init ==
    /\ store = EmptyStore
    /\ scanOpts = DefaultOpts
    /\ pc = "input"
    /\ line = NoLine
    /\ exited = "no"
    /\ ret = NoRet
    /\ call = NoCall /\ lastWrite = NoHistory /\ hexIn = <<>> /\ hexOut = Pending

\* prompt.Input returns a line
Prompt ==
    /\ exited = "no" /\ pc = "input"
    /\ \E l \in Lines : line' = l
    /\ pc' = "process"
    /\ UNCHANGED <<store, scanOpts, exited, call, ret, lastWrite, hexIn, hexOut>>

\* the ControlD key binding inside prompt.Input: os.Exit(0)
CtrlD ==
    /\ exited = "no" /\ pc = "input"
    /\ exited' = "ctrl-d"
    /\ UNCHANGED <<store, scanOpts, pc, line, call, ret, lastWrite, hexIn, hexOut>>

\* line == "exit" || line == "quit": os.Exit(0)
Quit ==
    /\ exited = "no" /\ pc = "process"
    /\ isQuit(line)
    /\ exited' = "quit"
    /\ UNCHANGED <<store, scanOpts, pc, line, call, ret, lastWrite, hexIn, hexOut>>

\* processLine(c, line) returned r, or log.Fatalln ended the process in it
Processed(r) ==
    /\ store' = r.store
    /\ scanOpts' = r.opts
    /\ ret' = [before |-> store, optsBefore |-> scanOpts, out |-> r.out,
               calls |-> r.calls, parseErr |-> r.parseErr, failed |-> r.failed,
               begin |-> r.scan.begin, visited |-> r.scan.visited,
               count |-> r.scan.count, err |-> r.scan.err]
    /\ exited' = IF r.fatal THEN "fatal" ELSE "no"
    /\ pc' = IF r.fatal THEN pc ELSE "looped"

\* processLine(c, line) for a line of command cmd
RunLine(cmd) ==
    /\ exited = "no" /\ pc = "process"
    /\ ~isQuit(line)
    /\ line.cmd = cmd
    /\ \E fail \in LineFails :
           Processed(processLine(store, scanOpts, line, fail))
    /\ UNCHANGED <<line, call, lastWrite, hexIn, hexOut>>

LineGet == RunLine("get")
LineSet == RunLine("set")
LineDelete == RunLine("delete")
LineScan == RunLine("scan")
LineUnknown ==
    /\ line.cmd \notin {"get", "set", "delete", "scan"}
    /\ RunLine(line.cmd)

\* the end of the loop body: back to prompt.Input
LoopBack ==
    /\ exited = "no" /\ pc = "looped"
    /\ pc' = "input"
    /\ line' = NoLine
    /\ ret' = NoRet
    /\ UNCHANGED <<store, scanOpts, exited, call, lastWrite, hexIn, hexOut>>

Next ==
    \/ Prompt \/ CtrlD \/ Quit
    \/ LineGet \/ LineSet \/ LineDelete \/ LineScan \/ LineUnknown
    \/ LoopBack

Spec == Init /\ [][Next]_vars

\* ------------------------------------------------------------------ properties
\* the keys of the printed "key":"value" pairs, in print order
RECURSIVE PrintedKeys(_)
PrintedKeys(out) ==
    IF out = <<>> THEN <<>>
    ELSE (IF Head(out).kind = "pair" THEN <<Head(out).key>> ELSE <<>>)
         \o PrintedKeys(Tail(out))

Range(seq) == {seq[i] : i \in 1..Len(seq)}

\* the stored keys of st that are >= begin
FromBegin(st, begin) == {k \in DOMAIN st : bytesCompare(k, begin) >= 0}

Least(S) == CHOOSE k \in S : \A h \in S : bytesCompare(k, h) <= 0

\* C1: after any sequence of successful Set and Delete calls, Get(k) returns
\* the value of the most recent Set(k, v) if no Delete(k) followed it, and
\* NotFound (an error, no value) if the most recent write to k was a Delete or
\* k was never set.  This holds of every key of the store at once and of the
\* Get call that last returned.
C1_GetReturnsLastWrite ==
    /\ \A k \in Keys :
        Get(store, k, "none") =
            IF lastWrite[k].op = "set"
            THEN [val |-> lastWrite[k].val, err |-> "nil"]
            ELSE [val |-> <<>>, err |-> "NotFound"]
    /\ (ret.op = "get" /\ ret.err # "Error") =>
        IF lastWrite[ret.key].op = "set"
        THEN ret.err = "nil" /\ ret.val = lastWrite[ret.key].val
        ELSE ret.err = "NotFound" /\ ret.val = <<>>

\* a Get of a deleted key returned while another key holds an overwritten value
C1_Witness ==
    /\ ret.op = "get" /\ ret.err = "NotFound"
    /\ lastWrite[ret.key].op = "delete"
    /\ \E k \in Keys : lastWrite[k].op = "set" /\ store[k] = <<119>>

\* C2: for every begin key and limit N >= 0, Scan(begin, N) calls the visitor
\* on at most N keys, in strictly ascending key order, and the first key
\* visited is the smallest stored key >= begin (it is visited whenever N # 0,
\* such a key exists and the iterator could be opened); with limit -1 a scan
\* that returns no error ends only on the visitor answering false or on the
\* iterator being exhausted.
C2_ScanVisits ==
    pc = "done" =>
        LET v == ret.visited
            from == FromBegin(store, call.begin)
        IN  /\ call.limit >= 0 => Len(v) <= call.limit
            /\ \A i, j \in 1..Len(v) : i < j => bytesCompare(v[i], v[j]) < 0
            /\ Range(v) \subseteq from
            /\ v # <<>> => v[1] = Least(from)
            /\ (call.limit # 0 /\ from # {} /\ call.fail.at \notin {"begin", "seek"})
                   => v # <<>>
            /\ (call.limit = -1 /\ ret.err = "nil") =>
                   \/ v # <<>> /\ v[Len(v)] \notin call.accept
                   \/ Range(v) = from

\* a scan cut short by its limit, starting at a key that is not the begin key
C2_Witness ==
    /\ pc = "done"
    /\ call.limit = 2 /\ Len(ret.visited) = 2
    /\ Cardinality(FromBegin(store, call.begin)) = 3
    /\ ret.visited[1] # call.begin

\* C6: the count Scan returns equals the number of keys the visitor was called
\* on and answered true for, however the scan ends.
C6_CountIsAccepted ==
    pc = "done" =>
        ret.count = Cardinality({i \in 1..Len(ret.visited) :
                                    ret.visited[i] \in call.accept})

\* C3: with the prefix flag set and begin key b, every printed key has b as a
\* prefix, and the scan stops at the first key in iteration order that does
\* not: the visitor is called on no key after it, and nothing after it is
\* printed.
C3_PrefixStops ==
    (pc = "done" /\ scanOpts.prefix) =>
        LET other == {k \in FromBegin(ret.before, ret.begin) :
                          ~bytesHasPrefix(k, ret.begin)}
        IN  /\ \A k \in Range(PrintedKeys(ret.out)) : bytesHasPrefix(k, ret.begin)
            /\ \A k \in other :
                /\ \A h \in Range(ret.visited) : bytesCompare(h, k) <= 0
                /\ \A h \in Range(PrintedKeys(ret.out)) : bytesCompare(h, k) < 0

\* a prefix scan that printed a key, met a key without the prefix and left a
\* later key unvisited
C3_Witness ==
    /\ pc = "done" /\ scanOpts.prefix
    /\ PrintedKeys(ret.out) # <<>>
    /\ \E k \in Range(ret.visited) :
        /\ ~bytesHasPrefix(k, ret.begin)
        /\ \E h \in DOMAIN ret.before : bytesCompare(h, k) > 0

\* C4: with a non-empty until key U every printed key is <= U and the scan
\* ends at the first key > U: nothing after it is visited, and an unlimited
\* scan without the prefix flag that returns no error prints exactly the
\* stored keys from begin up to U.  With an empty until key no upper bound is
\* applied: such a scan prints every stored key from begin on.
C4_UntilBounds ==
    pc = "done" =>
        LET from == FromBegin(ret.before, ret.begin)
            over == {k \in from : bytesCompare(k, scanOpts.until) > 0}
            printed == Range(PrintedKeys(ret.out))
            plain == ~scanOpts.prefix /\ scanOpts.limit = -1 /\ ret.err = "nil"
        IN  IF scanOpts.until # <<>>
            THEN /\ \A k \in printed : bytesCompare(k, scanOpts.until) <= 0
                 /\ \A k \in over : \A h \in Range(ret.visited) :
                        bytesCompare(h, k) <= 0
                 /\ plain => printed = from \ over
            ELSE plain => printed = from

\* a scan that printed the until key itself and stopped at a later key
C4_Witness ==
    /\ pc = "done" /\ scanOpts.until # <<>>
    /\ scanOpts.until \in Range(PrintedKeys(ret.out))
    /\ \E k \in Range(ret.visited) : bytesCompare(k, scanOpts.until) > 0

HexDigits == {48, 49, 50, 51, 52, 53, 54, 55, 56, 57,
              97, 98, 99, 100, 101, 102, 65, 66, 67, 68, 69, 70}

DigitValue(c) == IF c <= 57 THEN c - 48 ELSE IF c >= 97 THEN c - 87 ELSE c - 55

RECURSIVE InGrammar(_)
InGrammar(s) ==
    \/ s = <<>>
    \/ s[1] # 92 /\ InGrammar(Tail(s))
    \/ Len(s) >= 2 /\ s[1] = 92 /\ s[2] = 92 /\ InGrammar(SubSeq(s, 3, Len(s)))
    \/ /\ Len(s) >= 4 /\ s[1] = 92 /\ s[2] = 120
       /\ s[3] \in HexDigits /\ s[4] \in HexDigits
       /\ InGrammar(SubSeq(s, 5, Len(s)))

\* what the claim says a string of the grammar decodes to
RECURSIVE Decoded(_)
Decoded(s) ==
    IF s = <<>> THEN <<>>
    ELSE IF s[1] # 92 THEN <<s[1]>> \o Decoded(Tail(s))
    ELSE IF s[2] = 92 THEN <<92>> \o Decoded(SubSeq(s, 3, Len(s)))
    ELSE <<16 * DigitValue(s[3]) + DigitValue(s[4])>>
         \o Decoded(SubSeq(s, 5, Len(s)))

\* C7: for every input made of ordinary characters, \xHH sequences and \\
\* sequences, hexEscape returns the input with each \xHH replaced by the byte
\* 0xHH, each \\ by one backslash and every other character copied in order;
\* an input without a backslash comes back unchanged and the output is never
\* longer than the input.
C7_HexEscapeDecodes ==
    (hexOut # Pending /\ InGrammar(hexIn)) =>
        /\ ~hexOut.fatal
        /\ hexOut.out = Decoded(hexIn)
        /\ Len(hexOut.out) <= Len(hexIn)
        /\ (92 \notin Range(hexIn)) => hexOut.out = hexIn

\* \x41 at the end of a string, after a character, came back as one byte 0x41
C7_Witness ==
    /\ hexIn = <<97, 92, 120, 52, 49>>
    /\ hexOut = [fatal |-> FALSE, out |-> <<97, 65>>]

\* C8: in REPL mode, when the flags of a scan line fail to parse, the command
\* is aborted: no Scan call is made for that line and the store is unchanged.
C8_ParseErrorAborts ==
    (pc = "looped" /\ line.cmd = "scan" /\ ret.parseErr) =>
        ret.calls = 0 /\ store = ret.before

\* C9: in REPL mode a failed adapter call and an unknown command are reported
\* and do not end the process, and the loop is only left on a line equal to
\* quit or exit or on the interrupt key.
C9_OnlyQuitLeaves ==
    /\ (ret.failed \/ (ret # NoRet /\ line.cmd \in {"foo", "exit"})) =>
           /\ exited = "no" /\ pc = "looped"
           /\ \E i \in 1..Len(ret.out) :
                  ret.out[i].kind \in {"err", "unkown command"}
    /\ exited # "no" => (exited = "quit" /\ isQuit(line)) \/ exited = "ctrl-d"

\* C10: the options a REPL scan line runs with depend only on that line: a
\* flag the line omits has its default (limit -1, prefix false, until empty,
\* delete false) whatever earlier lines set, and the options are those the
\* line's own words give when parsed from the defaults.
C10_OptionsPerLine ==
    (pc = "looped" /\ line.cmd = "scan") =>
        /\ FlagN \notin Range(line.args) => scanOpts.limit = -1
        /\ FlagP \notin Range(line.args) => scanOpts.prefix = FALSE
        /\ FlagU \notin Range(line.args) => scanOpts.until = <<>>
        /\ FlagD \notin Range(line.args) => scanOpts.delete = FALSE
        /\ scanOpts = parseFlags(line.args, 1, DefaultOpts, <<>>).opts

\* a scan line without flags ran after a line that had set delete and prefix
C10_Witness ==
    /\ pc = "looped" /\ line = [cmd |-> "scan", args |-> <<>>]
    /\ ret.optsBefore.delete /\ ret.optsBefore.prefix
    /\ scanOpts = DefaultOpts

====
